---- MODULE Spec2Model ----
(***************************************************************************)
(* The tray application of myaws_win: TrayApp (tray_app.py) on top of      *)
(* MyAwsService (service.py).                                              *)
(*                                                                         *)
(* Threads: the main thread (TrayApp.run: startup refresh, start of the    *)
(* timer thread, menu loop), the timer thread (_auto_refresh_loop) and the *)
(* runner threads started by _run_async, one per dispatched action.        *)
(*                                                                         *)
(* A string is modelled as the sequence of the tokens it contains: the     *)
(* empty string is <<>> and Python's `tok in message` is Contains.         *)
(***************************************************************************)
EXTENDS Integers, Sequences, FiniteSets, TLC

\* ------------------------------------------------------------------ bounds

\* Number of runner threads (dispatched actions) that can be alive at once.
MaxDispatch == 2
\* Number of calendar dates the clock can reach.
MaxDay == 2

\* ----------------------------------------------------------------- threads

MainT == <<"main", 0>>
TimerT == <<"timer", 0>>
Runners == {<<"runner", i>> : i \in 1..MaxDispatch}
Threads == {MainT, TimerT} \cup Runners
Days == 1..MaxDay

\* ---------------------------------------------------------------- messages

NoError == <<>>
Contains(message, tok) == \E i \in 1..Len(message) : message[i] = tok

\* AwsCli._run: RuntimeError("AWS CLI call failed: <detail>").
ConnError == <<"AWS CLI call failed", "Could not connect to the endpoint URL">>
DataUnavailable == <<"AWS CLI call failed", "DataUnavailableException", "GetCostAndUsage">>
DataUnavailableBare == <<"AWS CLI call failed", "DataUnavailableException">>
AccessDenied == <<"AWS CLI call failed", "AccessDeniedException", "GetCostAndUsage">>
\* The message of the exception raised by the action of runner d.
ActionError(d) == <<"action failed", ToString(d[2])>>

\* Failures of a describe-* query, and failures of the cost query.
QueryFailures == {ConnError}
CostFailures == {ConnError, DataUnavailable, DataUnavailableBare, AccessDenied}

\* ----------------------------------------------------------- notifications

\* _notify: the text handed to icon.notify; a failure of icon.notify is swallowed.
NoNote == <<>>
Refreshed == <<"Data refreshed">>
Completed == <<"completed">>
Failed(message) == <<"failed">> \o message
\* refresh, lines 86-87: the notification of a forced refresh.
RefreshNote(force) == IF force THEN Refreshed ELSE NoNote

\* ------------------------------------------------------------ cost reports

Gran == {"MONTHLY", "DAILY"}
NoFile == <<"absent">>
\* {"ResultsByTime": []}
EmptyReport == [ResultsByTime |-> <<>>]
\* A report with one time period holding one group.
Report1 == [ResultsByTime |-> <<[Start |-> "d", Groups |-> <<[Key |-> "EC2", Amount |-> 12, Unit |-> "USD"]>>]>>]
RemoteReports == {Report1}

\* json.dumps / json.loads: the text of a payload and its parse.
Dumps(payload) == <<"json", payload>>
Loads(text) == text[2]

\* The `prefix` of the cache file of a granularity.
Prefix(granularity) == IF granularity = "MONTHLY" THEN "myaws-costs-monthly" ELSE "myaws-costs-daily"
Prefixes == {Prefix(g) : g \in Gran}

\* The except branch of _get_cost_payload: is the failure downgraded?
DowngradedDataOnly(message) == Contains(message, "DataUnavailableException")
Downgraded(message) == Contains(message, "DataUnavailableException") \/ Contains(message, "GetCostAndUsage")

\* Is the cache file of (prefix, date) used instead of the remote query?
CacheIgnored(fs, prefix, date) == FALSE
CacheHit(fs, prefix, date) == fs[prefix][date] # NoFile

\* The files after a downgraded failure (lines 129-130 return before line 132).
DowngradeCached(fs, prefix, date) == [fs EXCEPT ![prefix][date] = Dumps(EmptyReport)]
DowngradeFiles(fs, prefix, date) == fs

\* MyAwsService._get_cost_payload(granularity) on date `today`, the files `fs`
\* and the remote answer `remote` ([ok, payload] or [ok, message]); the result
\* says whether the call raised, what it returned, whether the remote cost
\* query was issued, and the files after the call.
GetCostPayload(fs, granularity, date, remote) ==
    LET prefix == Prefix(granularity) IN
    IF CacheHit(fs, prefix, date)
    THEN [raised |-> FALSE, value |-> Loads(fs[prefix][date]), message |-> NoError,
          queried |-> FALSE, files |-> fs]
    ELSE IF remote.ok
    THEN [raised |-> FALSE, value |-> remote.payload, message |-> NoError,
          queried |-> TRUE,
          files |-> [fs EXCEPT ![prefix][date] = Dumps(remote.payload)]]
    ELSE IF Downgraded(remote.message)
    THEN [raised |-> FALSE, value |-> EmptyReport, message |-> NoError,
          queried |-> TRUE, files |-> DowngradeFiles(fs, prefix, date)]
    ELSE [raised |-> TRUE, value |-> EmptyReport, message |-> remote.message,
          queried |-> TRUE, files |-> fs]

\* What the remote cost API can answer.
NoAnswer == [ok |-> TRUE, payload |-> EmptyReport, message |-> <<"no query">>]
CostAnswers == {[ok |-> TRUE, payload |-> p, message |-> NoError] : p \in RemoteReports}
                 \cup {[ok |-> FALSE, payload |-> EmptyReport, message |-> m] : m \in CostFailures}

\* ---------------------------------------------------------------- snapshot

\* The remote queries of get_snapshot, in the order it issues them.
Queries == <<"images", "volumes", "snapshots", "monthly", "daily", "instances">>
NQueries == Len(Queries)
AllQueries == {Queries[i] : i \in 1..NQueries}
IsCost(q) == q \in {"monthly", "daily"}
GranOf(q) == IF q = "monthly" THEN "MONTHLY" ELSE "DAILY"

None == [queries |-> {}, timestamp |-> 0]
\* AppSnapshot(...) assembled from the gathered query results.
AppSnapshot(results, now) == [queries |-> {results[i].q : i \in 1..Len(results)}, timestamp |-> now]

\* ---------------------------------------------- lifecycle operations: values

\* Number of identifiers terminate_instances can be handed.
MaxIds == 2

\* The image update_image replaces, its backing snapshot, the worker instance
\* run-instances launches, the image create-image registers, and the user's instances.
AmiOld == "ami-old"
SnapOld == "snap-old"
Worker == "i-worker"
AmiNew == "ami-new"
InstanceIds == {"i-1", "i-2"}
NoId == ""
IdLists == UNION {[1..n -> InstanceIds] : n \in 0..MaxIds}

\* The remote side when an operation is called.
World0 == [images |-> {AmiOld}, available |-> {AmiOld}, snapshots |-> {SnapOld}, running |-> InstanceIds]

\* An exception: its message and the statement that raised it.
NoExc == [message |-> NoError, at |-> "none"]
CliFailed(cmd) == <<"AWS CLI call failed", cmd>>
RemoteCmdFailed == <<"Remote update command failed">>
SshNotStarted == <<"OSError", "ssh">>

\* Exit status of an AWS CLI process, and the outcome of subprocess.call(ssh ...).
CliOutcomes == {"zero", "nonzero"}
SshOutcomes == {"zero", "nonzero", "oserror"}

\* The frame of a service call: operation, arguments, locals.
NoFrame == [name |-> "none", image_id |-> NoId, snapshot_id |-> NoId, rebuild |-> FALSE,
            dry_run |-> FALSE, instance_ids |-> <<>>, instance_id |-> NoId,
            dns_name |-> NoId, new_image |-> NoId]

\* ------------------------------------------------------------- AwsCli._run

\* Longest output text of a CLI process.
MaxText == 3
\* The characters of a process's output: whitespace, and anything else.
Chars == {" ", "e"}
Texts == UNION {[1..n -> Chars] : n \in 0..MaxText}
IsSpace(c) == c = " "

\* str.strip(): leading and trailing whitespace removed.
RECURSIVE LStrip(_)
LStrip(text) == IF text # <<>> /\ IsSpace(Head(text)) THEN LStrip(Tail(text)) ELSE text
RECURSIVE RStrip(_)
RStrip(text) ==
    IF text # <<>> /\ IsSpace(text[Len(text)]) THEN RStrip(SubSeq(text, 1, Len(text) - 1)) ELSE text
Strip(text) == RStrip(LStrip(text))

\* str(exc) of subprocess.CalledProcessError.
GenericText == <<"returned non-zero exit status">>

\* _run, lines 61-63: detail = stderr or stdout or str(exc), the two stripped.
DetailRaw(stderr, stdout) ==
    IF stderr # <<>> THEN stderr ELSE IF stdout # <<>> THEN stdout ELSE GenericText
Detail(stderr, stdout) ==
    IF Strip(stderr) # <<>> THEN Strip(stderr)
    ELSE IF Strip(stdout) # <<>> THEN Strip(stdout)
    ELSE GenericText

\* _run, line 64: f"AWS CLI call failed: {detail}".
CliMessage(detail) == <<"AWS CLI call failed">> \o detail

\* What a CLI process can do: its exit status and its two output texts.
Procs == [code : {0, 1}, stdout : Texts, stderr : Texts]
\* No call of _run has been made.
NoCall == [proc |-> [code |-> 0, stdout |-> <<>>, stderr |-> <<>>], runs |-> 0,
           raised |-> FALSE, message |-> NoError, stdout |-> <<>>]

\* ------------------------------------------------------------- cost figures

\* Number of time periods a cost report can hold.
MaxPeriods == 2
\* The groups of a time period: service name, the number float() reads from
\* the "Amount" text, and unit.
GroupEc2 == [Key |-> "EC2", Amount |-> 12, Unit |-> "USD"]
GroupS3 == [Key |-> "S3", Amount |-> 5, Unit |-> "USD"]
GroupLists == {<<>>, <<GroupS3>>, <<GroupEc2, GroupS3>>}
Periods == [Start : {"2024-05-01", "2024-05-02"}, Groups : GroupLists]
CostReports == {[ResultsByTime |-> periods] :
                  periods \in UNION {[1..n -> Periods] : n \in 0..MaxPeriods}}

\* get_snapshot, lines 203 and 210: `total += amount`.
LastAmount(total, amount) == amount
AddAmount(total, amount) == total + amount

\* get_snapshot, lines 201-204: the inner loop over the groups of a month period.
RECURSIVE GroupLoop(_, _)
GroupLoop(sofar, groups) ==
    IF groups = <<>> THEN sofar
    ELSE LET group == Head(groups) IN
         GroupLoop([total |-> AddAmount(sofar.total, group.Amount),
                    items |-> Append(sofar.items, [name |-> group.Key, amount |-> group.Amount,
                                                   unit |-> group.Unit])],
                   Tail(groups))

\* get_snapshot, lines 198-204: monthly_total and monthly_items.
RECURSIVE PeriodLoop(_, _)
PeriodLoop(sofar, periods) ==
    IF periods = <<>> THEN sofar
    ELSE PeriodLoop(GroupLoop(sofar, Head(periods).Groups), Tail(periods))
MonthlyCosts(report) == PeriodLoop([total |-> 0, items |-> <<>>], report.ResultsByTime)

\* get_snapshot, lines 208-210: day_total.
RECURSIVE DayTotal(_, _)
DayTotal(total, groups) ==
    IF groups = <<>> THEN total
    ELSE DayTotal(AddAmount(total, Head(groups).Amount), Tail(groups))

\* get_snapshot, lines 206-211: daily_items.
RECURSIVE DayLoop(_, _)
DayLoop(items, days) ==
    IF days = <<>> THEN items
    ELSE DayLoop(Append(items, [start |-> Head(days).Start, total |-> DayTotal(0, Head(days).Groups)]),
                 Tail(days))
DailyCosts(report) == DayLoop(<<>>, report.ResultsByTime)

\* No snapshot has been built.
NoCosts == [built |-> FALSE, monthly |-> EmptyReport, daily |-> EmptyReport,
            monthly_cost_total |-> 0, monthly_cost_items |-> <<>>, daily_cost_items |-> <<>>]

\* -------------------------------------------------------------- price store

\* config.vm_types, flattened: the instance types update_pricing walks through.
VmTypes == <<"m5.4xlarge", "m5.12xlarge">>
TypeSet == {VmTypes[i] : i \in 1..Len(VmTypes)}
\* The "pricing" field of a row: a USD price, or "n/a" when the offer has none.
Prices == {"0.7680", "2.3040"}
NoRow == "no row"
\* What awspricing.offer knows about each type.
Offers == [TypeSet -> Prices \cup {"n/a"}]
\* update_pricing is not running.
NoUpdate == [pc |-> "idle", todo |-> <<>>, offer |-> [t \in TypeSet |-> "n/a"],
             before |-> [t \in TypeSet |-> NoRow]]
\* No price has been looked up.
NoLookup == [type |-> "none", value |-> "none", during |-> FALSE]

\* instance_price, lines 229-238: "n/a" without a priced row, else the formatted price (USD).
InstancePrice(db, type) ==
    IF db[type] = NoRow \/ db[type] = "n/a" THEN "n/a" ELSE "$" \o db[type] \o "/h"

VARIABLES
    pc,            \* position of each thread
    acc,           \* get_snapshot's locals: the query results gathered so far
    exc,           \* the message of the exception a thread is handling
    refresh_lock,  \* TrayApp._refresh_lock is held
    state,         \* TrayApp.state
    last_error,    \* TrayApp.last_error
    stop_event,    \* TrayApp._stop_event is set
    today,         \* the calendar date
    files,         \* the cost cache files of the state directory
    calls,         \* per runner: refresh(True) calls made after its action concluded
    rq,            \* per runner: a build started after its action concluded ("no", "pending", "yes")
    held0,         \* per thread: TrayApp.state when its refresh acquired the guard
    returned,      \* per granularity: date and content of the last fetch that returned
    answer,        \* the remote side's answer to the last cost query issued
    note,          \* the notification the latest step showed (icon.notify)
    svc_pc,        \* position of the service operation in progress
    frame,         \* its name, arguments and locals
    cli_log,       \* the remote commands it has issued, in order, with their outcome
    ec2,           \* the remote side: images, snapshots, running instances
    svc_exc,       \* the exception it raised
    svc_caught,    \* the exception its except branch caught
    cli_call,      \* the last call of AwsCli._run: the process, how often it ran, the result
    costs,         \* the cost figures of the last snapshot built, and the reports they came from
    database,      \* MyAwsService.database: the "pricing" of the row of each type
    up,            \* update_pricing: its position, the types left, the offer, the store it found
    looked         \* the last instance_price call: type, result, made while update_pricing ran

vars == <<pc, acc, exc, refresh_lock, state, last_error, stop_event, today, files,
          calls, rq, held0, returned, answer, note, svc_pc, frame, cli_log, ec2,
          svc_exc, svc_caught, cli_call, costs, database, up, looked>>

trayVars == <<pc, acc, exc, refresh_lock, state, last_error, stop_event, today, files,
              calls, rq, held0, returned, answer, note>>
priceVars == <<database, up, looked>>
opVars == <<svc_pc, frame, cli_log, ec2, svc_exc, svc_caught>>
libVars == <<cli_call, costs, priceVars>>

costVars == <<files, returned, answer>>
histVars == <<calls, rq, held0>>

\* Threads inside the guarded section of refresh.
Guarded == {"build", "r_pub", "r_clr", "r_err", "r_rel"}
InRefresh(t) == pc[t] \in Guarded

\* run, lines 34-36: the main thread begins with the startup refresh; the
\* timer thread does not exist until that call has returned.
StartPcTimerFirst(t) == IF t = MainT THEN "r_acq" ELSE IF t = TimerT THEN "t_loop" ELSE "idle"
StartPc(t) == IF t = MainT THEN "r_acq" ELSE "idle"

InitCommon ==
    /\ pc = [t \in Threads |-> StartPc(t)]
    /\ acc = [t \in Threads |-> <<>>]
    /\ exc = [t \in Threads |-> NoError]
    /\ refresh_lock = FALSE
    /\ state = None
    /\ last_error = NoError
    /\ stop_event = FALSE
    /\ today = 1
    /\ calls = [t \in Runners |-> 0]
    /\ rq = [t \in Runners |-> "no"]
    /\ held0 = [t \in Threads |-> None]
    /\ returned = [g \in Gran |-> [date |-> 0, content |-> EmptyReport]]
    /\ answer = NoAnswer
    /\ note = NoNote
    /\ svc_pc = "idle"
    /\ frame = NoFrame
    /\ cli_log = <<>>
    /\ ec2 = World0
    /\ svc_exc = NoExc
    /\ svc_caught = NoExc
    /\ cli_call = NoCall
    /\ costs = NoCosts
    /\ database = [t \in TypeSet |-> "0.7680"]
    /\ up = NoUpdate
    /\ looked = NoLookup

\* The tray application starts on a date whose cost reports are already cached
\* (a restart on the same day): every cost fetch is then a cache hit, and a
\* build fails only at one of the describe-* queries. The fetches that miss,
\* are downgraded or raise are those of SpecCost.
Init ==
    /\ InitCommon
    /\ files = [p \in Prefixes |-> [d \in Days |-> IF d = 1 THEN Dumps(Report1) ELSE NoFile]]

\* The tray application starts with no cost report cached.
InitCost ==
    /\ InitCommon
    /\ files = [p \in Prefixes |-> [d \in Days |-> NoFile]]

\* ------------------------------------------------------------------ refresh

\* threading.Lock.acquire(blocking=False): succeeds exactly when the lock is free.
TryAcquireAlways(held) == TRUE
TryAcquire(held) == ~held

\* The `force` argument of a thread's refresh call: True at startup (line 34)
\* and in a runner (lines 62, 97), False in the timer loop (line 44).
Force(t) == t # TimerT

\* Where a thread continues when its refresh call returns.
ReturnPc(t) ==
    IF t = MainT THEN "spawn"
    ELSE IF t = TimerT THEN "t_loop"
    ELSE IF calls[t] = 0 THEN "rec_ok" ELSE "done"

\* Runners whose action has concluded and whose unit has not finished.
Concluded(d) == pc[d] = "rec_ok" \/ (calls[d] > 0 /\ pc[d] # "done")

\* refresh, line 81-82: try the guard; when it is held, return at once.
Acquire(t) ==
    /\ pc[t] = "r_acq"
    /\ IF TryAcquire(refresh_lock)
       THEN /\ refresh_lock' = TRUE
            /\ pc' = [pc EXCEPT ![t] = "build"]
            /\ acc' = [acc EXCEPT ![t] = <<>>]
            /\ held0' = [held0 EXCEPT ![t] = state]
            /\ rq' = [d \in Runners |-> IF Concluded(d) /\ rq[d] = "no" THEN "pending" ELSE rq[d]]
       ELSE /\ pc' = [pc EXCEPT ![t] = ReturnPc(t)]
            /\ UNCHANGED <<refresh_lock, acc, held0, rq>>
    /\ note' = NoNote
    /\ UNCHANGED <<exc, state, last_error, stop_event, today, costVars, calls, opVars, libVars>>

\* get_snapshot has no handler: a failed query leaves it with the exception.
QueryFailedSwallowed(message) == [pc |-> "r_pub", exc |-> NoError]
QueryFailedEscapes(message) == [pc |-> "escaped", exc |-> message]
QueryFailed(message) == [pc |-> "r_err", exc |-> message]

\* The answer of the remote side to the next query of get_snapshot.
Answers(q) ==
    IF IsCost(q) THEN CostAnswers
    ELSE {[ok |-> TRUE, payload |-> EmptyReport, message |-> NoError]}
           \cup {[ok |-> FALSE, payload |-> EmptyReport, message |-> m] : m \in QueryFailures}

\* The outcome of one query of get_snapshot: [raised, value, message, queried, files].
RunQuery(q, remote) ==
    IF IsCost(q) THEN GetCostPayload(files, GranOf(q), today, remote)
    ELSE [raised |-> ~remote.ok, value |-> remote.payload, message |-> remote.message,
          queried |-> TRUE, files |-> files]

\* get_snapshot, lines 161-184: the next remote query.
Query(t) ==
    /\ pc[t] = "build"
    /\ Len(acc[t]) < NQueries
    /\ LET q == Queries[Len(acc[t]) + 1] IN
       \E remote \in Answers(q) :
         LET r == RunQuery(q, remote)
             done == Len(acc[t]) + 1 = NQueries
             f == QueryFailed(r.message)
         IN /\ files' = r.files
            /\ answer' = IF IsCost(q) /\ r.queried THEN remote ELSE answer
            /\ returned' = IF IsCost(q) /\ ~r.raised
                           THEN [returned EXCEPT ![GranOf(q)] = [date |-> today, content |-> r.value]]
                           ELSE returned
            /\ IF r.raised
               THEN /\ pc' = [pc EXCEPT ![t] = f.pc]
                    /\ exc' = [exc EXCEPT ![t] = f.exc]
                    /\ acc' = acc
                    /\ rq' = [d \in Runners |-> IF rq[d] = "pending" /\ pc[d] # "done" THEN "no" ELSE rq[d]]
               ELSE /\ pc' = [pc EXCEPT ![t] = IF done THEN "r_pub" ELSE "build"]
                    /\ exc' = exc
                    /\ acc' = [acc EXCEPT ![t] = Append(@, [q |-> q, value |-> r.value, queried |-> r.queried])]
                    /\ rq' = [d \in Runners |-> IF done /\ rq[d] = "pending" /\ pc[d] # "done" THEN "yes" ELSE rq[d]]
    /\ note' = NoNote
    /\ UNCHANGED <<refresh_lock, state, last_error, stop_event, today, calls, held0, opVars, libVars>>

\* refresh, line 84: self.state = <the snapshot get_snapshot returned>.
Publish(t) ==
    /\ pc[t] = "r_pub"
    /\ state' = AppSnapshot(acc[t], today)
    /\ pc' = [pc EXCEPT ![t] = "r_clr"]
    /\ note' = NoNote
    /\ UNCHANGED <<acc, exc, refresh_lock, last_error, stop_event, today, costVars, histVars, opVars, libVars>>

\* refresh, lines 85-87: self.last_error = "" (and the notification when forced).
ClearError(t) ==
    /\ pc[t] = "r_clr"
    /\ last_error' = NoError
    /\ pc' = [pc EXCEPT ![t] = "r_rel"]
    /\ note' = RefreshNote(Force(t))
    /\ UNCHANGED <<acc, exc, refresh_lock, state, stop_event, today, costVars, histVars, opVars, libVars>>

\* refresh, lines 88-89: the except branch.
HeldCleared(held) == None
HeldAfterFailure(held) == held
ErrorSwallowed(message) == NoError
ErrorAfterFailure(message) == message

RecordFailure(t) ==
    /\ pc[t] = "r_err"
    /\ last_error' = ErrorAfterFailure(exc[t])
    /\ state' = HeldAfterFailure(state)
    /\ pc' = [pc EXCEPT ![t] = "r_rel"]
    /\ note' = NoNote
    /\ UNCHANGED <<acc, exc, refresh_lock, stop_event, today, costVars, histVars, opVars, libVars>>

\* refresh, lines 90-92: the finally branch releases the guard.
HeldOnFailure(failed) == failed
LockAfterRefresh(failed) == FALSE

Release(t) ==
    /\ pc[t] = "r_rel"
    /\ refresh_lock' = LockAfterRefresh(exc[t] # NoError)
    /\ pc' = [pc EXCEPT ![t] = ReturnPc(t)]
    /\ acc' = [acc EXCEPT ![t] = <<>>]
    /\ exc' = [exc EXCEPT ![t] = NoError]
    /\ held0' = [held0 EXCEPT ![t] = None]
    /\ note' = NoNote
    /\ UNCHANGED <<state, last_error, stop_event, today, costVars, calls, rq, opVars, libVars>>

\* ---------------------------------------------------------------- threads

\* run, lines 35-37: start the timer thread and enter the menu loop.
Spawn ==
    /\ pc[MainT] = "spawn"
    /\ pc' = [pc EXCEPT ![MainT] = "menu", ![TimerT] = "t_loop"]
    /\ note' = NoNote
    /\ UNCHANGED <<acc, exc, refresh_lock, state, last_error, stop_event, today, costVars, histVars, opVars, libVars>>

\* _auto_refresh_loop, lines 40 and 42: self._stop_event.is_set().
StopIgnored(stop) == FALSE
StopSeen(stop) == stop

\* _auto_refresh_loop, line 40: the loop condition.
TimerLoop ==
    /\ pc[TimerT] = "t_loop"
    /\ pc' = [pc EXCEPT ![TimerT] = IF StopSeen(stop_event) THEN "t_exit" ELSE "t_wait"]
    /\ note' = NoNote
    /\ UNCHANGED <<acc, exc, refresh_lock, state, last_error, stop_event, today, costVars, histVars, opVars, libVars>>

\* _auto_refresh_loop, lines 41-44: the wait returns; break when stopped, else
\* go on to call refresh(False). The call itself is the thread's next step.
TimerWake ==
    /\ pc[TimerT] = "t_wait"
    /\ pc' = [pc EXCEPT ![TimerT] = IF StopSeen(stop_event) THEN "t_exit" ELSE "r_acq"]
    /\ note' = NoNote
    /\ UNCHANGED <<acc, exc, refresh_lock, state, last_error, stop_event, today, costVars, histVars, opVars, libVars>>

\* The actions a menu item dispatches: a service operation, or refresh itself ("Refresh now").
Kinds == {"op", "refresh"}

\* _run_async, line 64: a menu click starts a runner thread.
Dispatch(d, kind) ==
    /\ pc[MainT] = "menu"
    /\ pc[d] \in {"idle", "done"}
    /\ pc' = [pc EXCEPT ![d] = IF kind = "refresh" THEN "r_acq" ELSE "act"]
    /\ calls' = [calls EXCEPT ![d] = 0]
    /\ rq' = [rq EXCEPT ![d] = "no"]
    /\ note' = NoNote
    /\ UNCHANGED <<acc, exc, refresh_lock, state, last_error, stop_event, today, costVars, held0, opVars, libVars>>

\* runner, lines 61-62: the finally branch calls refresh(True) whatever the outcome.
RefreshOnSuccessOnly(ok) == ok
RunnerRefreshes(ok) == TRUE

\* runner, line 55: the action is called without taking any lock.
WaitsForOthers(d) == refresh_lock \/ \E e \in Runners \ {d} : pc[e] = "act"
MustWait(d) == FALSE

\* runner, lines 54-62: the action returns or raises, and the outcome is recorded.
ActionDone(d) ==
    /\ pc[d] = "act"
    /\ ~MustWait(d)
    /\ \E ok \in BOOLEAN :
         /\ last_error' = IF ok THEN NoError ELSE ActionError(d)
         /\ note' = IF ok THEN Completed ELSE Failed(ActionError(d))
         /\ IF RunnerRefreshes(ok)
            THEN /\ pc' = [pc EXCEPT ![d] = "r_acq"]
                 /\ calls' = [calls EXCEPT ![d] = @ + 1]
            ELSE /\ pc' = [pc EXCEPT ![d] = "done"]
                 /\ calls' = calls
    /\ UNCHANGED <<acc, exc, refresh_lock, state, stop_event, today, costVars, rq, held0, opVars, libVars>>

\* runner, lines 55-62 for "Refresh now": the action (refresh) has returned.
RecordOk(d) ==
    /\ pc[d] = "rec_ok"
    /\ last_error' = NoError
    /\ IF RunnerRefreshes(TRUE)
       THEN /\ pc' = [pc EXCEPT ![d] = "r_acq"]
            /\ calls' = [calls EXCEPT ![d] = @ + 1]
       ELSE /\ pc' = [pc EXCEPT ![d] = "done"]
            /\ calls' = calls
    /\ note' = Completed
    /\ UNCHANGED <<acc, exc, refresh_lock, state, stop_event, today, costVars, rq, held0, opVars, libVars>>

\* _quit, lines 308-310.
Quit ==
    /\ pc[MainT] = "menu"
    /\ stop_event' = TRUE
    /\ pc' = [pc EXCEPT ![MainT] = "quit"]
    /\ note' = NoNote
    /\ UNCHANGED <<acc, exc, refresh_lock, state, last_error, today, costVars, histVars, opVars, libVars>>

\* The calendar date advances (datetime.date.today()).
NewDay ==
    /\ today < MaxDay
    /\ today' = today + 1
    /\ note' = NoNote
    /\ UNCHANGED <<pc, acc, exc, refresh_lock, state, last_error, stop_event, costVars, histVars, opVars, libVars>>

RefreshStep ==
    \E t \in Threads :
        \/ Acquire(t)
        \/ Query(t)
        \/ Publish(t)
        \/ ClearError(t)
        \/ RecordFailure(t)
        \/ Release(t)

Next ==
    \/ RefreshStep
    \/ Spawn
    \/ TimerLoop
    \/ TimerWake
    \/ \E d \in Runners, kind \in Kinds : Dispatch(d, kind)
    \/ \E d \in Runners : ActionDone(d)
    \/ \E d \in Runners : RecordOk(d)
    \/ Quit

\* The tray application on one calendar date, its cost reports cached.
Spec == Init /\ [][Next]_vars

\* run, line 37, and main: icon.run() returns after icon.stop(), run and main
\* return and the interpreter exits. The timer and the runners are daemon
\* threads (lines 35 and 64): those still running end where they are.
Exit ==
    /\ pc[MainT] = "quit"
    /\ pc' = [t \in Threads |->
                IF t = MainT THEN "exited"
                ELSE IF pc[t] \in {"idle", "done", "t_exit"} THEN pc[t]
                ELSE "killed"]
    /\ note' = NoNote
    /\ UNCHANGED <<acc, exc, refresh_lock, state, last_error, stop_event, today, costVars, histVars, opVars, libVars>>

NextQuit ==
    \/ Next
    \/ Exit

\* The tray application up to the end of its process.
SpecQuit == Init /\ [][NextQuit]_vars

\* The steps of the timer thread.
TimerStep ==
    \/ TimerLoop
    \/ TimerWake
    \/ Acquire(TimerT)
    \/ Query(TimerT)
    \/ Publish(TimerT)
    \/ ClearError(TimerT)
    \/ RecordFailure(TimerT)
    \/ Release(TimerT)

\* The runner thread of the first dispatch.
FirstRunner == <<"runner", 1>>

NextLive ==
    \/ RefreshStep
    \/ Spawn
    \/ TimerLoop
    \/ TimerWake
    \/ \E kind \in Kinds : Dispatch(FirstRunner, kind)
    \/ ActionDone(FirstRunner)
    \/ RecordOk(FirstRunner)
    \/ Quit

\* The tray application with one runner, while its process lives: the timer
\* thread is scheduled again and again, Event.wait returns (at the latest
\* when the interval is over), and every remote query of a build returns.
SpecLive == Init /\ [][NextLive]_vars /\ WF_vars(TimerStep)

\* The startup and periodic refreshes (no menu click) across calendar dates,
\* starting with no cost report cached.
NextCost ==
    \/ RefreshStep
    \/ Spawn
    \/ TimerLoop
    \/ TimerWake
    \/ NewDay

SpecCost == InitCost /\ [][NextCost]_vars

\* ----------------------------------------------------- lifecycle operations

\* A service operation can be called when none is in progress.
Resting == {"idle", "returned", "raised", "crashed"}

\* update_image, lines 303-326: its statements in program order.
UpdateSteps == <<"run_instance", "wait_running", "describe", "run_ssh", "create_image",
                 "wait_image", "terminate_instance", "destroy_image">>
StepIndex(step) == CHOOSE i \in 1..Len(UpdateSteps) : UpdateSteps[i] = step
NextStepNoWait(step) ==
    IF step = "create_image" THEN "terminate_instance" ELSE UpdateSteps[StepIndex(step) + 1]
NextStep(step) == UpdateSteps[StepIndex(step) + 1]

\* update_image, lines 305-327: the statements inside the try block.
InTryUntilImage(step) == step \in {"wait_running", "describe", "run_ssh", "create_image", "wait_image"}
InTry(step) == step \in {"wait_running", "describe", "run_ssh", "create_image", "wait_image",
                         "terminate_instance", "destroy_image", "delete_snapshot"}

\* update_image, lines 302-303: the machine type and the remote command.
VmType(rebuild) == IF rebuild THEN "default_vmtype_rebuild" ELSE "default_vmtype_update"
RemoteCmd(rebuild) == IF rebuild THEN "rebuild_command" ELSE "update_command"

\* AwsCli._run / run_ssh: one more remote command has been issued.
Log(cmd, arg, out) == cli_log' = Append(cli_log, [cmd |-> cmd, arg |-> arg, out |-> out])

\* An exception raised at `step`: caught by update_image's handler when the
\* statement is inside its try block, else it leaves the operation.
Raise(step, message) ==
    /\ svc_exc' = [message |-> message, at |-> step]
    /\ svc_pc' = IF frame.name = "update_image" /\ InTry(step) THEN "except" ELSE "raised"

\* The call of an operation: a fresh frame.
Call(name, first) ==
    /\ svc_pc \in Resting
    /\ svc_pc' = first
    /\ cli_log' = <<>>
    /\ ec2' = World0
    /\ svc_exc' = NoExc
    /\ svc_caught' = NoExc
    /\ UNCHANGED <<trayVars, libVars>>

\* update_image(ami_to_update, ami_snapshot_id, rebuild), lines 299-303.
UpdateImage(rebuild) ==
    /\ Call("update_image", "run_instance")
    /\ frame' = [NoFrame EXCEPT !.name = "update_image", !.image_id = AmiOld,
                                !.snapshot_id = SnapOld, !.rebuild = rebuild]

\* run_instance, lines 240-256 (update_image line 304, before the try block).
RunInstance ==
    /\ svc_pc = "run_instance"
    /\ \E out \in CliOutcomes :
         /\ Log("run-instances", <<frame.image_id, VmType(frame.rebuild)>>, out)
         /\ IF out = "zero"
            THEN /\ ec2' = [ec2 EXCEPT !.running = @ \cup {Worker}]
                 /\ frame' = [frame EXCEPT !.instance_id = Worker]
                 /\ svc_pc' = NextStep("run_instance")
                 /\ UNCHANGED svc_exc
            ELSE /\ Raise("run_instance", CliFailed("run-instances"))
                 /\ UNCHANGED <<ec2, frame>>
    /\ UNCHANGED <<svc_caught, trayVars, libVars>>

\* update_image, line 306: wait instance-running.
WaitRunning ==
    /\ svc_pc = "wait_running"
    /\ \E out \in CliOutcomes :
         /\ Log("wait instance-running", <<frame.instance_id>>, out)
         /\ IF out = "zero"
            THEN svc_pc' = NextStep("wait_running") /\ UNCHANGED svc_exc
            ELSE Raise("wait_running", CliFailed("wait instance-running"))
    /\ UNCHANGED <<frame, ec2, svc_caught, trayVars, libVars>>

\* update_image, lines 307-317: describe-instances and the public DNS name.
Describe ==
    /\ svc_pc = "describe"
    /\ \E out \in CliOutcomes :
         /\ Log("describe-instances", <<frame.instance_id>>, out)
         /\ IF out = "zero"
            THEN /\ frame' = [frame EXCEPT !.dns_name = "dns-worker"]
                 /\ svc_pc' = NextStep("describe")
                 /\ UNCHANGED svc_exc
            ELSE /\ Raise("describe", CliFailed("describe-instances"))
                 /\ UNCHANGED frame
    /\ UNCHANGED <<ec2, svc_caught, trayVars, libVars>>

\* update_image, lines 320-321: a non-zero status of the remote command raises.
SshNeverFails(outcome) == FALSE
SshFailed(outcome) == outcome # "zero"

\* update_image, lines 318-321: the remote command over ssh.
RunSsh ==
    /\ svc_pc = "run_ssh"
    /\ \E out \in SshOutcomes :
         /\ Log("ssh", <<frame.dns_name, RemoteCmd(frame.rebuild)>>, out)
         /\ IF out = "oserror"
            THEN Raise("run_ssh", SshNotStarted)
            ELSE IF SshFailed(out)
            THEN Raise("run_ssh", RemoteCmdFailed)
            ELSE svc_pc' = NextStep("run_ssh") /\ UNCHANGED svc_exc
    /\ UNCHANGED <<frame, ec2, svc_caught, trayVars, libVars>>

\* create_image, lines 272-275 (update_image line 322).
CreateImage ==
    /\ svc_pc = "create_image"
    /\ \E out \in CliOutcomes :
         /\ Log("create-image", <<frame.instance_id>>, out)
         /\ IF out = "zero"
            THEN /\ ec2' = [ec2 EXCEPT !.images = @ \cup {AmiNew}]
                 /\ frame' = [frame EXCEPT !.new_image = AmiNew]
                 /\ svc_pc' = NextStep("create_image")
                 /\ UNCHANGED svc_exc
            ELSE /\ Raise("create_image", CliFailed("create-image"))
                 /\ UNCHANGED <<ec2, frame>>
    /\ UNCHANGED <<svc_caught, trayVars, libVars>>

\* update_image, line 323: wait image-available returns zero once the image is available.
WaitImage ==
    /\ svc_pc = "wait_image"
    /\ \E out \in CliOutcomes :
         /\ Log("wait image-available", <<frame.new_image>>, out)
         /\ IF out = "zero"
            THEN /\ ec2' = [ec2 EXCEPT !.available = @ \cup {frame.new_image}]
                 /\ svc_pc' = NextStep("wait_image")
                 /\ UNCHANGED svc_exc
            ELSE /\ Raise("wait_image", CliFailed("wait image-available"))
                 /\ UNCHANGED ec2
    /\ UNCHANGED <<frame, svc_caught, trayVars, libVars>>

\* terminate_instance, lines 264-265 (update_image line 324).
TerminateInstance ==
    /\ svc_pc = "terminate_instance"
    /\ \E out \in CliOutcomes :
         /\ Log("terminate-instances", <<frame.instance_id>>, out)
         /\ IF out = "zero"
            THEN /\ ec2' = [ec2 EXCEPT !.running = @ \ {frame.instance_id}]
                 /\ svc_pc' = NextStep("terminate_instance")
                 /\ UNCHANGED svc_exc
            ELSE /\ Raise("terminate_instance", CliFailed("terminate-instances"))
                 /\ UNCHANGED ec2
    /\ UNCHANGED <<frame, svc_caught, trayVars, libVars>>

\* destroy_image(image_id, snapshot_id, dry_run), lines 277-281, called from the menu.
DestroyImage(dry_run) ==
    /\ Call("destroy_image", "destroy_image")
    /\ frame' = [NoFrame EXCEPT !.name = "destroy_image", !.image_id = AmiOld,
                                !.snapshot_id = SnapOld, !.dry_run = dry_run]

\* destroy_image, lines 280-282: --dry-run is appended to both commands.
DryArg(dry_run) == IF dry_run THEN <<"--dry-run">> ELSE <<>>

\* destroy_image, lines 283-284: the second command is reached when the first returned.
DeleteAlways(out) == TRUE
DeleteAfter(out) == out = "zero"

\* destroy_image, line 283: deregister-image.
Deregister ==
    /\ svc_pc = "destroy_image"
    /\ \E out \in CliOutcomes :
         /\ Log("deregister-image", <<frame.image_id>> \o DryArg(frame.dry_run), out)
         /\ ec2' = IF out = "zero" /\ ~frame.dry_run
                   THEN [ec2 EXCEPT !.images = @ \ {frame.image_id}, !.available = @ \ {frame.image_id}]
                   ELSE ec2
         /\ IF DeleteAfter(out)
            THEN svc_pc' = "delete_snapshot" /\ UNCHANGED svc_exc
            ELSE Raise("destroy_image", CliFailed("deregister-image"))
    /\ UNCHANGED <<frame, svc_caught, trayVars, libVars>>

\* destroy_image, line 284: delete-snapshot; then update_image returns new_image (line 326).
DeleteSnapshot ==
    /\ svc_pc = "delete_snapshot"
    /\ \E out \in CliOutcomes :
         /\ Log("delete-snapshot", <<frame.snapshot_id>> \o DryArg(frame.dry_run), out)
         /\ ec2' = IF out = "zero" /\ ~frame.dry_run
                   THEN [ec2 EXCEPT !.snapshots = @ \ {frame.snapshot_id}]
                   ELSE ec2
         /\ IF out = "zero"
            THEN svc_pc' = "returned" /\ UNCHANGED svc_exc
            ELSE Raise("delete_snapshot", CliFailed("delete-snapshot"))
    /\ UNCHANGED <<frame, svc_caught, trayVars, libVars>>

\* update_image, lines 327-329: terminate the worker, then `raise`. When the
\* terminate call itself raises, that exception leaves the handler instead
\* (the caught one is kept only as its __context__).
Cleanup ==
    /\ svc_pc = "except"
    /\ svc_caught' = svc_exc
    /\ \E out \in CliOutcomes :
         /\ Log("terminate-instances", <<frame.instance_id>>, out)
         /\ IF out = "zero"
            THEN /\ ec2' = [ec2 EXCEPT !.running = @ \ {frame.instance_id}]
                 /\ svc_exc' = svc_exc
            ELSE /\ ec2' = ec2
                 /\ svc_exc' = [message |-> CliFailed("terminate-instances"), at |-> "except"]
    /\ svc_pc' = "raised"
    /\ UNCHANGED <<frame, trayVars, libVars>>

\* terminate_instances, line 268: `if not instance_ids`.
NeverEmpty(instance_ids) == FALSE
NoIds(instance_ids) == Len(instance_ids) = 0

\* terminate_instances(instance_ids), lines 267-270.
TerminateInstances(instance_ids) ==
    /\ svc_pc \in Resting
    /\ frame' = [NoFrame EXCEPT !.name = "terminate_instances", !.instance_ids = instance_ids]
    /\ svc_caught' = NoExc
    /\ IF NoIds(instance_ids)
       THEN /\ cli_log' = <<>>
            /\ ec2' = World0
            /\ svc_exc' = NoExc
            /\ svc_pc' = "returned"
       ELSE \E out \in CliOutcomes :
            /\ cli_log' = <<[cmd |-> "terminate-instances", arg |-> instance_ids, out |-> out]>>
            /\ ec2' = IF out = "zero"
                      THEN [World0 EXCEPT !.running = @ \ {instance_ids[i] : i \in 1..Len(instance_ids)}]
                      ELSE World0
            /\ svc_exc' = IF out = "zero" THEN NoExc
                          ELSE [message |-> CliFailed("terminate-instances"), at |-> "terminate_instances"]
            /\ svc_pc' = IF out = "zero" THEN "returned" ELSE "raised"
    /\ UNCHANGED <<trayVars, libVars>>

\* The process dies while an operation is in progress (the runner is a daemon
\* thread: it ends with the process).
Crash ==
    /\ svc_pc \notin Resting
    /\ svc_pc' = "crashed"
    /\ UNCHANGED <<frame, cli_log, ec2, svc_exc, svc_caught, trayVars, libVars>>

NextOps ==
    \/ \E rebuild \in BOOLEAN : UpdateImage(rebuild)
    \/ RunInstance
    \/ WaitRunning
    \/ Describe
    \/ RunSsh
    \/ CreateImage
    \/ WaitImage
    \/ TerminateInstance
    \/ \E dry_run \in BOOLEAN : DestroyImage(dry_run)
    \/ Deregister
    \/ DeleteSnapshot
    \/ Cleanup
    \/ \E instance_ids \in IdLists : TerminateInstances(instance_ids)
    \/ Crash

\* The lifecycle operations of MyAwsService, one call at a time.
SpecOps == Init /\ [][NextOps]_vars

\* ------------------------------------------------------------- AwsCli._run

\* AwsCli._run(args), lines 49-64: subprocess.run(..., check=True) is called
\* once; CalledProcessError becomes RuntimeError, anything else is returned.
RunCli(proc) ==
    /\ cli_call' = [proc |-> proc,
                    runs |-> 1,
                    raised |-> proc.code # 0,
                    message |-> IF proc.code # 0 THEN CliMessage(Detail(proc.stderr, proc.stdout))
                                ELSE NoError,
                    stdout |-> IF proc.code # 0 THEN <<>> ELSE proc.stdout]
    /\ UNCHANGED <<trayVars, opVars, costs, priceVars>>

NextCli == \E proc \in Procs : RunCli(proc)

\* The calls of AwsCli._run, one at a time.
SpecCli == Init /\ [][NextCli]_vars

\* ------------------------------------------------------------- cost figures

\* get_snapshot, lines 198-223: the cost fields of the AppSnapshot built from
\* the monthly and the daily report, for the first snapshot of a run.
BuildCosts ==
    /\ ~costs.built
    /\ \E monthly \in CostReports, daily \in CostReports :
         costs' = [built |-> TRUE, monthly |-> monthly, daily |-> daily,
                   monthly_cost_total |-> MonthlyCosts(monthly).total,
                   monthly_cost_items |-> MonthlyCosts(monthly).items,
                   daily_cost_items |-> DailyCosts(daily)]
    /\ UNCHANGED <<trayVars, opVars, cli_call, priceVars>>

NextFigures == BuildCosts

\* The cost figures of the snapshots get_snapshot builds.
SpecFigures == Init /\ [][NextFigures]_vars

\* -------------------------------------------------------------- price store

\* update_pricing, lines 72-73: take the lock and clear the store.
ClearStore ==
    /\ up.pc \in {"idle", "done", "raised"}
    /\ up' = [pc |-> "offer", todo |-> <<>>, offer |-> NoUpdate.offer, before |-> database]
    /\ database' = [t \in TypeSet |-> NoRow]
    /\ looked' = NoLookup
    /\ UNCHANGED <<trayVars, opVars, cli_call, costs>>

\* update_pricing, line 74: awspricing.offer returns the offer, or raises
\* (the lock is released and the store stays as it is).
FetchOffer ==
    /\ up.pc = "offer"
    /\ \/ \E offer \in Offers : up' = [up EXCEPT !.pc = "insert", !.todo = VmTypes, !.offer = offer]
       \/ up' = [up EXCEPT !.pc = "raised"]
    /\ UNCHANGED <<database, looked, trayVars, opVars, cli_call, costs>>

\* update_pricing, lines 75-98: insert the row of the next type; after the
\* last one insert the timestamp row and release the lock.
InsertRow ==
    /\ up.pc = "insert"
    /\ database' = [database EXCEPT ![Head(up.todo)] = up.offer[Head(up.todo)]]
    /\ up' = [up EXCEPT !.todo = Tail(@), !.pc = IF Len(up.todo) = 1 THEN "done" ELSE "insert"]
    /\ UNCHANGED <<looked, trayVars, opVars, cli_call, costs>>

\* instance_price(instance_type), lines 226-238, called while the menu is
\* rendered (tray_app.py line 178); it does not take the lock.
LookUp(type) ==
    /\ looked' = [type |-> type, value |-> InstancePrice(database, type),
                  during |-> up.pc \in {"offer", "insert"}]
    /\ UNCHANGED <<database, up, trayVars, opVars, cli_call, costs>>

NextPrice ==
    \/ ClearStore
    \/ FetchOffer
    \/ InsertRow
    \/ \E type \in TypeSet : LookUp(type)

\* update_pricing in a runner thread and the price lookups of the menu.
SpecPrice == Init /\ [][NextPrice]_vars

\* ------------------------------------------------------------------ claims

\* Thread t takes a step of its own.
Steps(t) == pc'[t] # pc[t] \/ acc'[t] # acc[t]

\* C1: in every interleaving of refresh calls, at most one thread is inside
\* the guarded section of refresh, so at most one snapshot build is executing.
C1_AtMostOneBuild == Cardinality({t \in Threads : InRefresh(t)}) <= 1

\* C1 witness: one thread is in the middle of its build while another is
\* calling refresh.
C1_Witness ==
    \E t, u \in Threads :
        /\ t # u
        /\ pc[t] = "build" /\ Len(acc[t]) > 0
        /\ pc[u] = "r_acq"

\* C2: from the failure of a query to the return of refresh, the held snapshot
\* is the one held when the call acquired the guard, and the except branch
\* stores the failure's message in last_error. (A runner can overwrite
\* last_error before the refresh returns; the snapshot has no other writer.)
C2_FailedRefreshKeepsSnapshot ==
    [][\A t \in Threads :
          /\ (pc[t] = "build" /\ pc'[t] = "r_err") => (state' = held0[t] /\ exc'[t] # NoError)
          /\ (pc[t] = "r_err" /\ pc'[t] # "r_err") =>
                (state' = held0[t] /\ last_error' = exc[t] /\ exc[t] # NoError)
          /\ (pc[t] = "r_rel" /\ exc[t] # NoError /\ pc'[t] # "r_rel") => state' = held0[t]]_vars

\* C2 witness: a refresh has failed and recorded its message while a snapshot
\* built earlier is still held.
C2_Witness ==
    \E t \in Threads :
        /\ pc[t] = "r_rel" /\ exc[t] # NoError
        /\ state # None /\ state = held0[t]
        /\ last_error = exc[t]

\* C3: a refresh call made while the guard is held returns at once: the caller
\* continues after the call, no query is started, and the guard, the held
\* snapshot, last_error and the cache files are left as they were.
C3_DroppedRefresh ==
    [][\A t \in Threads :
          (pc[t] = "r_acq" /\ refresh_lock /\ Steps(t)) =>
             /\ pc'[t] = ReturnPc(t)
             /\ pc'[t] \notin Guarded
             /\ UNCHANGED <<acc, exc, refresh_lock, state, last_error, files, answer, held0>>]_vars

\* C3 witness: a runner has finished while the build that made it drop its
\* refresh call is still in flight.
C3_Witness ==
    \E d \in Runners, t \in Threads :
        /\ pc[d] = "done" /\ calls[d] = 1 /\ rq[d] = "pending"
        /\ t # d /\ pc[t] = "build"

\* A refresh hands over its outcome: line 85 after a build, line 89 after a failure.
RefreshCleared(t) == pc[t] = "r_clr" /\ pc'[t] = "r_rel" /\ last_error' = NoError
RefreshFailed(t) == pc[t] = "r_err" /\ pc'[t] = "r_rel" /\ last_error' = exc[t] /\ exc[t] # NoError
\* A runner records the outcome of its action: line 56 or line 59.
RunnerRecorded(d) ==
    /\ pc[d] \in {"act", "rec_ok"}
    /\ pc'[d] # pc[d]
    /\ last_error' \in {NoError, ActionError(d)}
    /\ pc[d] = "rec_ok" => last_error' = NoError

\* C4 as claimed: last_error changes only as the outcome of a refresh.
C4_OnlyRefreshWrites ==
    [][last_error' # last_error => \E t \in Threads : RefreshCleared(t) \/ RefreshFailed(t)]_vars

\* C4 amended: last_error changes only as the outcome of a refresh or of a
\* dispatched action: to a message when the refresh or the action fails, to
\* the empty string when it succeeds.
C4_OnlyOutcomesWrite ==
    [][last_error' # last_error =>
          \/ \E t \in Threads : RefreshCleared(t) \/ RefreshFailed(t)
          \/ \E d \in Runners : RunnerRecorded(d)]_vars

\* C4 witness: the failure of a dispatched action is what last_error holds,
\* while no refresh has an outcome to hand over.
C4_Witness ==
    /\ \E d \in Runners : last_error = ActionError(d)
    /\ \A t \in Threads : pc[t] \notin {"r_clr", "r_err"}

\* C5: a runner calls refresh(True) after its action has concluded, never
\* before, and exactly once by the time it finishes.
C5_OneForcedRefresh ==
    \A d \in Runners :
        /\ calls[d] <= 1
        /\ pc[d] \in {"act", "rec_ok"} => calls[d] = 0
        /\ pc[d] = "done" => calls[d] = 1

\* C5 witness: the action raised and the runner is making its refresh call.
C5_Witness ==
    \E d \in Runners : pc[d] = "r_acq" /\ calls[d] = 1 /\ last_error = ActionError(d)

\* C6 as claimed: when a runner has finished, a build that started after its
\* action concluded has run all its queries.
C6_RequeryBeforeFinish == \A d \in Runners : pc[d] = "done" => rq[d] = "yes"

\* A runner finishes.
Finishes(d) == pc[d] # "done" /\ pc'[d] = "done"

\* C6 amended: a runner finishes either when its own refresh call, made after
\* the action concluded, has run its build to the end (all queries, or up to
\* the first that fails), or when that call is dropped because another thread
\* is inside refresh.
C6_RequeryUnlessDropped ==
    [][\A d \in Runners :
          Finishes(d) =>
             /\ calls[d] = 1
             /\ \/ pc[d] = "r_rel"
                \/ pc[d] = "r_acq" /\ \E t \in Threads \ {d} : InRefresh(t)]_vars

\* C6 witness: a runner has finished with no build started after its action
\* concluded, while the build that was in flight goes on.
C6_Witness ==
    \E d \in Runners, t \in Threads :
        /\ pc[d] = "done" /\ calls[d] = 1 /\ rq[d] = "no"
        /\ t # d /\ pc[t] = "build" /\ Len(acc[t]) < NQueries

\* The held snapshot is complete: it holds the result of every query.
Complete(snapshot) == snapshot.queries = AllQueries

\* C7: the held snapshot is empty or complete, and it changes only when a
\* build that ran every query hands over its snapshot.
C7_NoPartialSnapshot ==
    /\ [](state = None \/ Complete(state))
    /\ [][state' # state =>
            \E t \in Threads :
                /\ pc[t] = "r_pub" /\ pc'[t] = "r_clr"
                /\ Len(acc[t]) = NQueries
                /\ state' = AppSnapshot(acc[t], today)
                /\ Complete(state')]_vars

\* C7 witness: a complete snapshot is held while a build has gathered some
\* query results and not the others.
C7_Witness ==
    \E t \in Threads :
        /\ Complete(state)
        /\ pc[t] = "build" /\ Len(acc[t]) \in 1..(NQueries - 1)

\* C8: the guard is held exactly while a thread is inside refresh, so a call
\* made while no refresh is in flight starts the build.
C8_GuardReleased ==
    /\ [](refresh_lock <=> \E t \in Threads : InRefresh(t))
    /\ [][\A t \in Threads :
            (pc[t] = "r_acq" /\ Steps(t) /\ ~\E u \in Threads : InRefresh(u)) =>
                pc'[t] = "build"]_vars

\* C8 witness: a build is running after an earlier refresh failed.
C8_Witness ==
    \E t \in Threads :
        /\ pc[t] = "build"
        /\ last_error = ConnError
        /\ refresh_lock

\* Thread t is about to fetch the cost report of granularity g.
Fetching(t, g) ==
    /\ pc[t] = "build"
    /\ Len(acc[t]) < NQueries
    /\ IsCost(Queries[Len(acc[t]) + 1])
    /\ GranOf(Queries[Len(acc[t]) + 1]) = g
\* The fetch raised; the fetch returned, and what it returned.
FetchRaised(t) == pc'[t] = "r_err"
FetchReturned(t) == pc'[t] # "r_err" /\ Len(acc'[t]) = Len(acc[t]) + 1
Fetched(t) == acc'[t][Len(acc'[t])]
\* The fetch issued the remote cost query.
FetchQueried(t) == FetchRaised(t) \/ (FetchReturned(t) /\ Fetched(t).queried)
MonthlyAt == CHOOSE i \in 1..NQueries : Queries[i] = "monthly"

\* C9 as claimed: once a fetch of a report has returned on a date, a later
\* fetch on that date returns the same content and issues no remote query; a
\* fetch on a date with no earlier fetch issues the remote query.
C9_SameDateSameContent ==
    [][\A t \in Threads, g \in Gran :
          (Fetching(t, g) /\ Steps(t)) =>
             /\ returned[g].date = today =>
                   /\ FetchReturned(t)
                   /\ Fetched(t).value = returned[g].content
                   /\ ~Fetched(t).queried
             /\ (returned[g].date # today /\ files[Prefix(g)][today] = NoFile) => FetchQueried(t)]_vars

\* C9 amended: once a fetch has written the cache file of a report and date
\* (its remote query succeeded), every later fetch on that date returns the
\* file's content, which is what that fetch returned, issues no remote query
\* and leaves the files alone; a fetch that finds no file for the date issues
\* the remote query.
C9_CachedSameContent ==
    /\ [](\A g \in Gran :
            files[Prefix(g)][today] # NoFile =>
               returned[g] = [date |-> today, content |-> Loads(files[Prefix(g)][today])])
    /\ [][\A t \in Threads, g \in Gran :
            (Fetching(t, g) /\ Steps(t)) =>
               IF files[Prefix(g)][today] # NoFile
               THEN /\ FetchReturned(t)
                    /\ Fetched(t).value = Loads(files[Prefix(g)][today])
                    /\ Fetched(t).value = returned[g].content
                    /\ ~Fetched(t).queried
                    /\ UNCHANGED <<files, answer>>
               ELSE FetchQueried(t)]_vars

\* C9 witness: on a later date, a fetch has returned the report from the
\* cache file without a remote query.
C9_Witness ==
    \E t \in Threads :
        /\ today > 1
        /\ pc[t] = "build" /\ Len(acc[t]) >= MonthlyAt
        /\ ~acc[t][MonthlyAt].queried
        /\ acc[t][MonthlyAt].value = Report1

\* The fetch leaves the empty result and no error.
FetchEmpty(t) ==
    /\ FetchReturned(t)
    /\ Fetched(t).value = EmptyReport
    /\ exc'[t] = NoError
    /\ UNCHANGED <<last_error, files>>
\* The fetch leaves get_snapshot with the remote failure.
FetchPropagates(t) ==
    /\ FetchRaised(t)
    /\ exc'[t] = answer'.message
    /\ acc'[t] = acc[t]
    /\ UNCHANGED <<state, files>>

Issued(cmd) == \E i \in 1..Len(cli_log) : cli_log[i].cmd = cmd
IssuedAt(cmd) == CHOOSE i \in 1..Len(cli_log) : cli_log[i].cmd = cmd
LastCall == cli_log[Len(cli_log)]
Updating == frame.name = "update_image"
\* The remote command of update_image has returned a non-zero status.
SshNonZero == \E i \in 1..Len(cli_log) : cli_log[i].cmd = "ssh" /\ cli_log[i].out = "nonzero"
\* The last command issued is a terminate call for the worker.
WorkerTerminateLast ==
    /\ Len(cli_log) > 0
    /\ LastCall.cmd = "terminate-instances"
    /\ LastCall.arg = <<Worker>>

\* C11: once the remote command of update_image has returned a non-zero
\* status, no create-image, deregister-image or delete-snapshot call is
\* issued, the prior image and its snapshot stay, update_image does not return
\* normally, and when it is left (raising) the last command issued is a
\* terminate call for the worker, after which the worker is gone unless that
\* call failed.
C11_RemoteCommandFailed ==
    (Updating /\ SshNonZero) =>
        /\ ~Issued("create-image")
        /\ ~Issued("deregister-image")
        /\ ~Issued("delete-snapshot")
        /\ AmiOld \in ec2.images
        /\ SnapOld \in ec2.snapshots
        /\ svc_pc # "returned"
        /\ svc_pc = "raised" =>
             /\ WorkerTerminateLast
             /\ LastCall.out = "zero" => Worker \notin ec2.running

C11_Witness ==
    /\ Updating
    /\ SshNonZero
    /\ svc_pc = "raised"
    /\ svc_exc.message = RemoteCmdFailed
    /\ Worker \notin ec2.running

\* C12: when update_image is left by an exception raised after the worker
\* was launched, the last command issued is a terminate call for the worker,
\* issued after the command that failed.
C12_TerminateBeforeErrorLeaves ==
    (Updating /\ svc_pc = "raised" /\ frame.instance_id = Worker) =>
        /\ WorkerTerminateLast
        /\ Len(cli_log) >= 2
        /\ cli_log[Len(cli_log) - 1].out # "zero"
        /\ svc_caught.at \in {"wait_running", "describe", "run_ssh", "create_image",
                              "wait_image", "terminate_instance", "destroy_image",
                              "delete_snapshot"}

\* The worker terminate of line 324 failed and the handler issued a second terminate call.
C12_Witness ==
    /\ Updating
    /\ svc_pc = "raised"
    /\ svc_caught.at = "terminate_instance"
    /\ WorkerTerminateLast
    /\ cli_log[Len(cli_log) - 1].cmd = "terminate-instances"

\* C13: when a step of update_image failed and the cleanup terminate of the
\* handler failed too, the exception that leaves update_image is the one the
\* step raised.
C13_OriginalErrorLeaves ==
    (Updating /\ svc_pc = "raised" /\ svc_caught # NoExc /\ LastCall.out # "zero") =>
        svc_exc = svc_caught

\* The commands of a complete update_image, in the order the claim lists them.
UpdateCommands == <<"run-instances", "wait instance-running", "describe-instances", "ssh",
                    "create-image", "wait image-available", "terminate-instances",
                    "deregister-image", "delete-snapshot">>
\* The commands issued by the body of update_image (not by its handler).
BodyLog == IF svc_caught # NoExc THEN SubSeq(cli_log, 1, Len(cli_log) - 1) ELSE cli_log
AllZeroBefore(n) == \A i \in 1..(n - 1) : cli_log[i].out = "zero"

\* C14: the commands update_image issues follow the fixed order, each one
\* issued only after the ones before it succeeded; the prior image and its
\* snapshot are touched only after every earlier step succeeded, with the new
\* image available and the worker terminated.
C14_FixedOrder ==
    Updating =>
        /\ Len(BodyLog) <= Len(UpdateCommands)
        /\ \A i \in 1..Len(BodyLog) : BodyLog[i].cmd = UpdateCommands[i]
        /\ AllZeroBefore(Len(BodyLog))
        /\ (Issued("deregister-image") \/ AmiOld \notin ec2.images \/ SnapOld \notin ec2.snapshots) =>
             /\ AllZeroBefore(IssuedAt("deregister-image"))
             /\ IssuedAt("deregister-image") = 8
             /\ AmiNew \in ec2.available
             /\ Worker \notin ec2.running

C14_Witness ==
    /\ Updating
    /\ svc_pc = "returned"
    /\ Len(cli_log) = Len(UpdateCommands)
    /\ AmiOld \notin ec2.images
    /\ SnapOld \notin ec2.snapshots
    /\ AmiNew \in ec2.available

Count(cmd) == Cardinality({i \in 1..Len(cli_log) : cli_log[i].cmd = cmd})

\* C15: destroy_image issues deregister-image first and delete-snapshot
\* second, each at most once, and delete-snapshot only after deregister-image
\* succeeded; when the operation fails or the process dies after a
\* deregister-image that succeeded, the image is deregistered and its snapshot
\* is still present.
C15_DeregisterThenDelete ==
    /\ Count("deregister-image") <= 1
    /\ Count("delete-snapshot") <= 1
    /\ Issued("delete-snapshot") =>
         /\ Issued("deregister-image")
         /\ IssuedAt("deregister-image") + 1 = IssuedAt("delete-snapshot")
         /\ cli_log[IssuedAt("deregister-image")].out = "zero"
    /\ frame.name = "destroy_image" =>
         \A i \in 1..Len(cli_log) : cli_log[i].cmd = <<"deregister-image", "delete-snapshot">>[i]
    /\ ( /\ Issued("deregister-image")
         /\ cli_log[IssuedAt("deregister-image")].out = "zero"
         /\ ~frame.dry_run
         /\ svc_pc \in {"except", "raised", "crashed"} ) =>
         /\ frame.image_id \notin ec2.images
         /\ frame.snapshot_id \in ec2.snapshots

\* delete-snapshot failed after the image was deregistered.
C15_Witness ==
    /\ frame.name = "destroy_image"
    /\ svc_pc = "raised"
    /\ Issued("delete-snapshot")
    /\ AmiOld \notin ec2.images
    /\ SnapOld \in ec2.snapshots

\* C16: terminate_instances with an empty list issues no command and returns
\* normally; with a non-empty list it issues exactly one terminate-instances
\* command, whose identifiers are the list it was handed.
C16_OneTerminateCall ==
    frame.name = "terminate_instances" =>
        IF Len(frame.instance_ids) = 0
        THEN cli_log = <<>> /\ svc_pc = "returned" /\ svc_exc = NoExc /\ ec2 = World0
        ELSE /\ Len(cli_log) = 1
             /\ cli_log[1].cmd = "terminate-instances"
             /\ cli_log[1].arg = frame.instance_ids
             /\ svc_pc = (IF cli_log[1].out = "zero" THEN "returned" ELSE "raised")

C16_Witness ==
    /\ frame.name = "terminate_instances"
    /\ frame.instance_ids = <<"i-1", "i-2">>
    /\ Len(cli_log) = 1
    /\ ec2.running = {}
    /\ svc_pc = "returned"

\* --------------------------------------------- claims on the tray threads

\* The timer thread executes the first statement of a refresh call.
TimerBegins == pc[TimerT] = "r_acq" /\ pc'[TimerT] # "r_acq"

\* C17 as stated: every refresh the timer begins is begun while the stop
\* signal is not raised.
C17_NoRefreshOnceStopped == [][TimerBegins => ~stop_event]_vars

\* C17: the timer goes on to a refresh only from a check, made after its
\* wait, that found the stop signal not raised; once the signal is raised,
\* every check of the loop leads to its exit, and the loop never restarts.
C17_RefreshOnlyAfterClearCheck ==
    [][ /\ (pc[TimerT] # "r_acq" /\ pc'[TimerT] = "r_acq") => (pc[TimerT] = "t_wait" /\ ~stop_event)
        /\ (stop_event /\ pc[TimerT] \in {"t_loop", "t_wait"}) => pc'[TimerT] \in {pc[TimerT], "t_exit"}
        /\ pc[TimerT] = "t_exit" => pc'[TimerT] = "t_exit" ]_vars

\* The stop signal was raised between the timer's check and its refresh call.
C17_Witness == stop_event /\ pc[TimerT] = "build"

\* The startup refresh of run has not returned.
Startup == pc[MainT] \in {"r_acq"} \cup Guarded

\* C18: while the startup refresh has not returned, the timer thread and the
\* runners do not exist and the guard is free for it; the startup refresh
\* always acquires the guard, notifies as a forced refresh when it succeeds,
\* and the timer thread and the menu loop start only once it has returned.
C18_StartupRefreshFirst ==
    /\ [](Startup => /\ pc[TimerT] = "idle"
                     /\ \A d \in Runners : pc[d] = "idle"
                     /\ pc[MainT] = "r_acq" => ~refresh_lock)
    /\ [][ /\ (pc[MainT] = "r_acq" /\ pc'[MainT] # "r_acq") => pc'[MainT] = "build"
           /\ (pc[MainT] = "r_clr" /\ pc'[MainT] # "r_clr") => note' = Refreshed
           /\ (pc[TimerT] = "idle" /\ pc'[TimerT] # "idle") => pc[MainT] = "spawn"
           /\ (pc[MainT] # "menu" /\ pc'[MainT] = "menu") => pc[MainT] = "spawn"
           /\ \A d \in Runners : (pc[d] = "idle" /\ pc'[d] # "idle") => pc[MainT] = "menu" ]_vars

\* The startup refresh has returned with its failure recorded; nothing else has run.
C18_Witness ==
    /\ pc[MainT] = "spawn"
    /\ last_error # NoError
    /\ pc[TimerT] = "idle"
    /\ ~refresh_lock

\* The next step of the refresh thread t is executing.
RefreshNext(t) == Query(t) \/ Publish(t) \/ ClearError(t) \/ RecordFailure(t) \/ Release(t)

C20_ErrorBoundary ==
    [][ \A t \in Threads :
          /\ (pc[t] = "build" /\ pc'[t] \notin {"build", "r_pub"}) => (pc'[t] = "r_err" /\ exc'[t] # NoError)
          /\ (pc[t] = "r_err" /\ pc'[t] # "r_err") => (last_error' = exc[t] /\ pc'[t] = "r_rel")
          /\ (pc[t] = "r_rel" /\ pc'[t] # "r_rel") => pc'[t] = ReturnPc(t)
          /\ (pc[t] = "act" /\ pc'[t] # "act") =>
                /\ pc'[t] = "r_acq"
                /\ \/ last_error' = NoError /\ note' = Completed
                   \/ last_error' = ActionError(t) /\ note' = Failed(ActionError(t)) ]_vars

\* The timer's refresh has failed and recorded its failure; the timer is about to go on.
C20_Witness ==
    /\ pc[TimerT] = "r_rel"
    /\ exc[TimerT] # NoError
    /\ last_error = exc[TimerT]

\* ------------------------------------------------ claims on failure display

\* The action of runner d has failed and its dispatch has not finished.
FailedUnfinished(d) == calls[d] = 1 /\ pc[d] # "done"

\* C21: from the moment the failure of a dispatched action is recorded until
\* its dispatch has finished (its forced refresh has returned), last_error
\* holds the failure message of that action.
C21_FailureStaysRecorded ==
    [][\A d \in Runners :
          (FailedUnfinished(d) /\ last_error = ActionError(d)) => last_error' = ActionError(d)]_vars

\* ------------------------------------------------------ claims on AwsCli._run

\* The positions of a text that hold something other than whitespace.
Ink(text) == {i \in 1..Len(text) : ~IsSpace(text[i])}
\* The text between its first and its last such position.
Trimmed(text) ==
    IF Ink(text) = {} THEN <<>>
    ELSE SubSeq(text, CHOOSE i \in Ink(text) : \A j \in Ink(text) : i <= j,
                      CHOOSE i \in Ink(text) : \A j \in Ink(text) : i >= j)
Exited == cli_call.runs > 0 /\ cli_call.proc.code # 0

\* C22 as stated: a call whose process exits non-zero runs the process once
\* and raises one failure, whose message carries stderr when stderr is not
\* empty, else stdout when stdout is not empty, else the generic text.
C22_StderrWhenNonEmpty ==
    Exited =>
        /\ cli_call.runs = 1
        /\ cli_call.raised
        /\ cli_call.message =
             CliMessage(IF cli_call.proc.stderr # <<>> THEN Trimmed(cli_call.proc.stderr)
                        ELSE IF cli_call.proc.stdout # <<>> THEN Trimmed(cli_call.proc.stdout)
                        ELSE GenericText)

\* C22: a call whose process exits non-zero runs the process once and raises
\* one failure, whose message carries stderr without its surrounding
\* whitespace when that is not empty, else stdout without its surrounding
\* whitespace when that is not empty, else the generic text.
C22_StrippedStderrFirst ==
    Exited =>
        /\ cli_call.runs = 1
        /\ cli_call.raised
        /\ cli_call.message =
             CliMessage(IF Ink(cli_call.proc.stderr) # {} THEN Trimmed(cli_call.proc.stderr)
                        ELSE IF Ink(cli_call.proc.stdout) # {} THEN Trimmed(cli_call.proc.stdout)
                        ELSE GenericText)

\* stderr holds only whitespace, and the message carries stdout.
C22_Witness ==
    /\ Exited
    /\ cli_call.proc.stderr = <<" ">>
    /\ cli_call.proc.stdout = <<"e", " ">>
    /\ cli_call.message = <<"AWS CLI call failed", "e">>

\* ---------------------------------------------------- claims on cost figures

\* The groups of a report: (period, position in the period).
GroupsIn(report) ==
    UNION {{<<i, j>> : j \in 1..Len(report.ResultsByTime[i].Groups)} :
             i \in 1..Len(report.ResultsByTime)}
GroupAt(report, ij) == report.ResultsByTime[ij[1]].Groups[ij[2]]
\* The sum of the amounts of a set of groups of a report.
RECURSIVE AmountOf(_, _)
AmountOf(report, set) ==
    IF set = {} THEN 0
    ELSE LET ij == CHOOSE x \in set : TRUE IN GroupAt(report, ij).Amount + AmountOf(report, set \ {ij})
\* The number of groups of a report that come before group (i, j) in report order.
Before(report, ij) ==
    Cardinality({x \in GroupsIn(report) : x[1] < ij[1] \/ (x[1] = ij[1] /\ x[2] < ij[2])})

\* C23: the monthly total of a built snapshot is the sum of the amounts of
\* all groups of all periods of the monthly report; the monthly items are the
\* groups in report order, one (name, amount, unit) each; the daily items are
\* the periods of the daily report in order, each its start date with the
\* sum of its groups' amounts; empty reports give total 0 and empty lists.
C23_CostFigures ==
    costs.built =>
        /\ costs.monthly_cost_total = AmountOf(costs.monthly, GroupsIn(costs.monthly))
        /\ Len(costs.monthly_cost_items) = Cardinality(GroupsIn(costs.monthly))
        /\ \A ij \in GroupsIn(costs.monthly) :
              costs.monthly_cost_items[Before(costs.monthly, ij) + 1] =
                 [name |-> GroupAt(costs.monthly, ij).Key,
                  amount |-> GroupAt(costs.monthly, ij).Amount,
                  unit |-> GroupAt(costs.monthly, ij).Unit]
        /\ Len(costs.daily_cost_items) = Len(costs.daily.ResultsByTime)
        /\ \A i \in 1..Len(costs.daily.ResultsByTime) :
              costs.daily_cost_items[i] =
                 [start |-> costs.daily.ResultsByTime[i].Start,
                  total |-> AmountOf(costs.daily, {ij \in GroupsIn(costs.daily) : ij[1] = i})]
        /\ costs.monthly = EmptyReport =>
              costs.monthly_cost_total = 0 /\ costs.monthly_cost_items = <<>>
        /\ costs.daily = EmptyReport => costs.daily_cost_items = <<>>

\* Two periods of two groups each in the monthly report.
C23_Witness ==
    /\ costs.built
    /\ Len(costs.monthly.ResultsByTime) = 2
    /\ \A i \in 1..2 : Len(costs.monthly.ResultsByTime[i].Groups) = 2
    /\ costs.monthly_cost_total = 34
    /\ Len(costs.monthly_cost_items) = 4
    /\ Len(costs.daily_cost_items) = 2
    /\ costs.daily_cost_items[2].total = 17

\* ------------------------------------------------------ claims on the stop

\* C24: once the stop signal is raised, an action in flight is not
\* interrupted: it ends only by concluding (returning or raising in its
\* runner, which then goes on to its forced refresh).
C24_ActionNotInterrupted ==
    [][\A d \in Runners : (stop_event /\ pc[d] = "act" /\ pc'[d] # "act") => pc'[d] = "r_acq"]_vars

LeftAfterLaunch == Updating /\ frame.instance_id = Worker /\ svc_pc \in {"returned", "raised"}
\* The first command that did not exit with zero.
SomeFailed == \E i \in 1..Len(cli_log) : cli_log[i].out # "zero"
FirstFailed ==
    cli_log[CHOOSE i \in 1..Len(cli_log) :
               /\ cli_log[i].out # "zero"
               /\ \A j \in 1..(i - 1) : cli_log[j].out = "zero"]
WorkerTerminates ==
    Cardinality({i \in 1..Len(cli_log) :
                   cli_log[i].cmd = "terminate-instances" /\ cli_log[i].arg = <<Worker>>})

\* C26 as stated: on every exit path of update_image after the launch
\* succeeded, the terminate call for the worker has been issued exactly once.
C26_TerminateExactlyOnce == LeftAfterLaunch => WorkerTerminates = 1

\* C26: on every exit path of update_image after the launch succeeded, the
\* terminate call for the worker has been issued: once on normal return and
\* when a step before the worker terminate failed, twice when the worker
\* terminate itself or the deletion of the prior image failed.
C26_TerminateOnceOrTwice ==
    LeftAfterLaunch =>
        WorkerTerminates =
            IF /\ SomeFailed
               /\ FirstFailed.cmd \in {"terminate-instances", "deregister-image", "delete-snapshot"}
            THEN 2 ELSE 1

\* delete-snapshot failed after the worker was terminated; the handler terminated it again.
C26_Witness ==
    /\ LeftAfterLaunch
    /\ svc_caught.at = "delete_snapshot"
    /\ WorkerTerminates = 2
    /\ Worker \notin ec2.running

\* -------------------------------------------------- claims on the price store

\* C27: a price lookup made while update_pricing was rebuilding the store
\* returned the value of the store before the rebuild or the value of the
\* store after it, and not "n/a" for a type priced before and after.
C27_NeverPartlyRebuilt ==
    (up.pc = "done" /\ looked.during) =>
        /\ looked.value \in {InstancePrice(up.before, looked.type), InstancePrice(database, looked.type)}
        /\ (up.before[looked.type] \in Prices /\ database[looked.type] \in Prices) => looked.value # "n/a"


\* ------------------------------------------------ claims on the cache files

\* The cache files other than the one of (g, today) stay as they are.
OtherFilesKept(g) ==
    \A p \in Prefixes, d \in Days : (p # Prefix(g) \/ d # today) => files'[p][d] = files[p][d]

\* C28: a cache file is created only by a fetch whose remote cost query
\* succeeded, and it is written once: a fetch that finds no file writes the
\* file of its report and date, holding the payload, exactly when its query
\* succeeded; a fetch that raises or whose failure is downgraded to the empty
\* result leaves the files alone; a cache hit leaves the files alone; no other
\* step touches a file, and a file once written never changes.
C28_CacheWrittenOnce ==
    /\ [][\A t \in Threads, g \in Gran :
            (Fetching(t, g) /\ Steps(t)) =>
               /\ OtherFilesKept(g)
               /\ IF files[Prefix(g)][today] # NoFile
                  THEN UNCHANGED files /\ ~FetchQueried(t)
                  ELSE /\ FetchQueried(t)
                       /\ IF answer'.ok
                          THEN /\ files'[Prefix(g)][today] = Dumps(answer'.payload)
                               /\ FetchReturned(t) /\ Fetched(t).value = answer'.payload
                          ELSE UNCHANGED files]_vars
    /\ [][(~\E t \in Threads, g \in Gran : Fetching(t, g) /\ Steps(t)) => UNCHANGED files]_vars
    /\ [][\A p \in Prefixes, d \in Days : files[p][d] # NoFile => files'[p][d] = files[p][d]]_vars

\* C28 witness: on one date the monthly fetch was downgraded to the empty
\* result and left no file, and the daily fetch succeeded and wrote its file.
C28_Witness ==
    \E t \in Threads :
        /\ pc[t] = "build" /\ Len(acc[t]) > MonthlyAt
        /\ acc[t][MonthlyAt].queried /\ acc[t][MonthlyAt].value = EmptyReport
        /\ files[Prefix("MONTHLY")][today] = NoFile
        /\ acc[t][MonthlyAt + 1].queried
        /\ files[Prefix("DAILY")][today] = Dumps(Report1)

====
